---- MODULE Spec2Model ----
(***************************************************************************)
(* Model of src/main.rs: the Margo WASM demo.  main prints a banner, then  *)
(* five simulated sensor readings (index, temperature, epoch seconds) with *)
(* a blocking two-second sleep after each, then a footer.                  *)
(*                                                                         *)
(* Every launched process r has its own program counter, loop state,       *)
(* standard output and host clocks.  Time is counted in ticks,             *)
(* TicksPerSec to the second, so that Duration::as_secs really truncates.  *)
(* The host is the only source of nondeterminism: where the wall clock     *)
(* starts (possibly before the Unix epoch), how much longer than asked a   *)
(* sleep lasts, whether the wall clock is set back during a sleep, and     *)
(* what standard output does with a line: take it; refuse the write (a     *)
(* full device, a pipe whose reader has gone), on which println! panics;   *)
(* refuse it as a descriptor not open for writing, which the standard      *)
(* library passes over in silence; end the process by a signal (a file     *)
(* size limit); or never return from the write (a full pipe that nobody    *)
(* reads).  Output is counted in whole lines.                              *)
(*                                                                         *)
(* Strings of the source that hold non-ASCII characters (the seal, the     *)
(* check mark, the degree sign) are written without them.                  *)
(***************************************************************************)
EXTENDS Integers, Sequences, FiniteSets

(* ------------------------------ bounds -------------------------------- *)

\* Resolution of the modelled clocks.
TicksPerSec == 2

\* The wall clock starts between MaxPre ticks before the epoch ...
MaxPre == 1

\* ... and MaxPost ticks after it.
MaxPost == 2

\* Most ticks by which the sleeps of one run may overrun in total.
MaxSlack == 1

\* Most times the host may set the wall clock back during one run.
MaxSteps == 1

\* Most single writes that an open standard output may refuse as a bad
\* descriptor during one run.
MaxDrops == 1

(* ------------------------- program constants -------------------------- *)

\* for i in 1..=5
LoopFirst == 1

LoopLast == 5

\* 20 + (i * 3)
TempBase == 20

TempStep == 3

\* Duration::from_secs(2)
SleepSecs == 2

\* Exit status of a Rust process whose main thread panicked.
PanicStatus == 101

\* Exit status when main returns.
OkStatus == 0

\* SIGXFSZ, which ends a process that writes past its file size limit.
SigXfsz == 25

\* What a shell reports for a process ended by SIGXFSZ.
KilledStatus == 128 + SigXfsz

(* ----------------------------- data types ----------------------------- *)

\* i has no other constraint on its type, so it is an i32.
I32Max == 2147483647

I32Min == (0 - I32Max) - 1

\* The format strings of the println! calls, in source order.
FmtTitle == "Margo WASM Demo - Hello from WebAssembly!"

FmtSeparator == "========================================"

FmtRuntime == "Runtime: wasm32-wasi"

FmtBuild == "Build: Rust {} ({})"

FmtBlank == ""

FmtReading == "[{}] Sensor reading: temperature={}C, timestamp={}"

FmtSuccess == "WASM workload completed successfully"

FmtFootprint == "Memory footprint: <10 MB (WASM sandbox)"

\* env!("CARGO_PKG_VERSION"), env!("CARGO_PKG_NAME"): fixed when building.
PkgVersion == "CARGO_PKG_VERSION"

PkgName == "CARGO_PKG_NAME"

\* One line of standard output: the format string and its arguments.
Line(fmt, args) == [fmt |-> fmt, args |-> args]

\* Mutant: Duration::from_millis(2) in place of from_secs(2).
SleepTicksMillis == (SleepSecs * TicksPerSec) \div 1000

\* Duration::from_secs(2), in ticks.
SleepTicks == SleepSecs * TicksPerSec

\* A set-back of the wall clock outweighs the sleep it happens in.
BackTicks == SleepTicks + MaxSlack + 1

InitWall == (0 - MaxPre) .. MaxPost

(* ------------------------------- state -------------------------------- *)

VARIABLES
    pc,        \* pc[r]: the statement process r executes next
    iter,      \* iter[r]: next value the range 1..=5 yields
    i,         \* i[r]: the loop variable
    temp,      \* temp[r]: value of 20 + (i * 3) for the pending println!
    ts,        \* ts[r]: value of ...as_secs() for the pending println!
    out,       \* out[r]: lines written to standard output
    exit,      \* exit[r]: <<>> while running, else <<exit status>>
    wall,      \* wall[r]: host wall clock, ticks since the Unix epoch
    mono,      \* mono[r]: host monotonic clock, ticks since launch
    slack,     \* slack[r]: ticks by which sleeps may still overrun
    steps,     \* steps[r]: times the wall clock may still be set back
    drops,     \* drops[r]: writes that may still be refused as EBADF
    closed,    \* closed[r]: standard output is not open for writing
    faulty,    \* faulty[r]: standard output may refuse or hold up a write
    at,        \* at[r][j]: when (monotonic) and by which statement
               \*           out[r][j] was written
    pauses,    \* pauses[r]: one record for every sleep performed
    reads,     \* reads[r]: wall clock value of every clock read
    clockErr,  \* clockErr[r]: a clock read of r has failed
    writeErr,  \* writeErr[r]: a write of r to standard output has failed
    backward   \* backward[r]: the wall clock of r has been set back

vars == <<pc, iter, i, temp, ts, out, exit, wall, mono, slack, steps,
          drops, closed, faulty, at, pauses, reads, clockErr, writeErr, backward>>

Procs == DOMAIN pc

(* ------------------------- pure computations -------------------------- *)

\* i * 3 or 20 + (i * 3) leaves the range of i32: a debug build panics
\* there and a release build wraps around.  (Decided by division, so that
\* the test itself stays within range.)
TempOverflows(n) ==
    \/ n > I32Max \div TempStep
    \/ n < 0 - (I32Max \div TempStep)
    \/ n * TempStep > I32Max - TempBase

\* Mutant: 20 + (i + 3).
TemperatureSum(n) == TempBase + (n + TempStep)

\* 20 + (i * 3), the value when the arithmetic stays within i32.
Temperature(n) == TempBase + (n * TempStep)

\* SystemTime::now().duration_since(UNIX_EPOCH) is Ok iff now >= epoch.
DurationOk(w) == w >= 0

\* Mutant: the fraction of the second (subsec_*) in place of as_secs.
AsSubsec(w) == w % TicksPerSec

\* Duration::as_secs: whole seconds, fraction dropped.
AsSecs(w) == w \div TicksPerSec

(* ------------------------------ actions ------------------------------- *)

\* println!(...) by process r, which then goes on to `next`.  `args` tells
\* that the line is formatted with run-time arguments, and so passes
\* through the buffer of standard output.  One of:
\*  - the line is written;
\*  - the write is refused as a bad descriptor (EBADF): the standard
\*    library passes over it, the line is lost and main goes on;
\*  - the write is refused otherwise: println! panics ("failed printing to
\*    stdout") and the line is not written;
\*  - the same, but the line was in the buffer and the host takes it when
\*    the buffer is flushed as the process exits;
\*  - the write passes the file size limit and SIGXFSZ ends the process;
\*  - the write never returns: the process stays in it for ever.
Println(r, line, next, args) ==
    \/ /\ ~closed[r]
       /\ out' = [out EXCEPT ![r] = Append(@, line)]
       /\ at' = [at EXCEPT ![r] = Append(@, [time |-> mono[r], stmt |-> pc[r]])]
       /\ pc' = [pc EXCEPT ![r] = next]
       /\ UNCHANGED <<exit, writeErr, drops>>
    \/ /\ closed[r] \/ drops[r] > 0
       /\ drops' = [drops EXCEPT ![r] = IF closed[r] THEN @ ELSE @ - 1]
       /\ writeErr' = [writeErr EXCEPT ![r] = TRUE]
       /\ pc' = [pc EXCEPT ![r] = next]
       /\ UNCHANGED <<out, at, exit>>
    \/ /\ faulty[r]
       /\ writeErr' = [writeErr EXCEPT ![r] = TRUE]
       /\ exit' = [exit EXCEPT ![r] = <<PanicStatus>>]
       /\ pc' = [pc EXCEPT ![r] = "exited"]
       /\ UNCHANGED <<out, at, drops>>
    \/ /\ faulty[r]
       /\ args
       /\ writeErr' = [writeErr EXCEPT ![r] = TRUE]
       /\ exit' = [exit EXCEPT ![r] = <<PanicStatus>>]
       /\ pc' = [pc EXCEPT ![r] = "exited"]
       /\ out' = [out EXCEPT ![r] = Append(@, line)]
       /\ at' = [at EXCEPT ![r] = Append(@, [time |-> mono[r], stmt |-> pc[r]])]
       /\ UNCHANGED drops
    \/ /\ faulty[r]
       /\ writeErr' = [writeErr EXCEPT ![r] = TRUE]
       /\ exit' = [exit EXCEPT ![r] = <<KilledStatus>>]
       /\ pc' = [pc EXCEPT ![r] = "exited"]
       /\ UNCHANGED <<out, at, drops>>
    \/ /\ faulty[r]
       /\ pc' = [pc EXCEPT ![r] = "blocked"]
       /\ UNCHANGED <<out, at, exit, writeErr, drops>>

\* println! of a line without run-time arguments.
Emit(r, here, line, next) ==
    /\ pc[r] = here
    /\ Println(r, line, next, FALSE)
    /\ UNCHANGED <<iter, i, temp, ts, wall, mono, slack, steps, closed, faulty,
                   pauses, reads, clockErr, backward>>

PrintTitle(r) == Emit(r, "title", Line(FmtTitle, <<>>), "separator")

PrintSeparator(r) == Emit(r, "separator", Line(FmtSeparator, <<>>), "runtime")

PrintRuntime(r) == Emit(r, "runtime", Line(FmtRuntime, <<>>), "build")

PrintBuild(r) == Emit(r, "build", Line(FmtBuild, <<PkgVersion, PkgName>>), "blank")

PrintBlank(r) == Emit(r, "blank", Line(FmtBlank, <<>>), "loop")

\* for i in 1..=5: take the next value of the range, or leave the loop.
LoopHead(r) ==
    /\ pc[r] = "loop"
    /\ IF iter[r] <= LoopLast
         THEN /\ i' = [i EXCEPT ![r] = iter[r]]
              /\ iter' = [iter EXCEPT ![r] = @ + 1]
              /\ pc' = [pc EXCEPT ![r] = "args"]
         ELSE /\ pc' = [pc EXCEPT ![r] = "footer"]
              /\ UNCHANGED <<i, iter>>
    /\ UNCHANGED <<temp, ts, out, exit, wall, mono, slack, steps,
                   drops, closed, faulty,
                   at, pauses, reads, clockErr, writeErr, backward>>

\* The arguments of the reading's println!: i, 20 + (i * 3), and the clock
\* read, whose unwrap panics when the wall clock is before the epoch.
EvalArgs(r) ==
    /\ pc[r] = "args"
    /\ reads' = [reads EXCEPT ![r] = Append(@, wall[r])]
    /\ temp' = [temp EXCEPT ![r] = Temperature(i[r])]
    /\ IF DurationOk(wall[r])
         THEN /\ ts' = [ts EXCEPT ![r] = AsSecs(wall[r])]
              /\ pc' = [pc EXCEPT ![r] = "print"]
              /\ UNCHANGED <<exit, clockErr>>
         ELSE /\ clockErr' = [clockErr EXCEPT ![r] = TRUE]
              /\ exit' = [exit EXCEPT ![r] = <<PanicStatus>>]
              /\ pc' = [pc EXCEPT ![r] = "exited"]
              /\ UNCHANGED ts
    /\ UNCHANGED <<iter, i, out, wall, mono, slack, steps,
                   drops, closed, faulty,
                   at, pauses, writeErr, backward>>

\* Mutant: the last two arguments of the println! are swapped.
PrintReadingSwapped(r) ==
    /\ pc[r] = "print"
    /\ Println(r, Line(FmtReading, <<i[r], ts[r], temp[r]>>), "sleep", TRUE)
    /\ UNCHANGED <<iter, i, temp, ts, wall, mono, slack, steps, closed, faulty,
                   pauses, reads, clockErr, backward>>

\* Mutant: no sleep follows the last reading.
PrintReadingNoTrail(r) ==
    /\ pc[r] = "print"
    /\ Println(r, Line(FmtReading, <<i[r], temp[r], ts[r]>>),
               IF i[r] = LoopLast THEN "loop" ELSE "sleep", TRUE)
    /\ UNCHANGED <<iter, i, temp, ts, wall, mono, slack, steps, closed, faulty,
                   pauses, reads, clockErr, backward>>

\* println!("[{}] Sensor reading: temperature={}C, timestamp={}", ...)
PrintReading(r) ==
    /\ pc[r] = "print"
    /\ Println(r, Line(FmtReading, <<i[r], temp[r], ts[r]>>), "sleep", TRUE)
    /\ UNCHANGED <<iter, i, temp, ts, wall, mono, slack, steps, closed, faulty,
                   pauses, reads, clockErr, backward>>

\* Mutant: the sleep is skipped in the last iteration (if i < 5 { sleep }).
SleepUnlessLast(r) ==
    /\ pc[r] = "sleep"
    /\ IF i[r] = LoopLast
         THEN UNCHANGED <<mono, wall, slack, steps, backward, pauses>>
         ELSE \E over \in 0 .. slack[r] :
              \E back \in {0} \cup (IF steps[r] > 0 THEN {BackTicks} ELSE {}) :
                 /\ mono' = [mono EXCEPT ![r] = @ + SleepTicks + over]
                 /\ wall' = [wall EXCEPT ![r] = @ + SleepTicks + over - back]
                 /\ slack' = [slack EXCEPT ![r] = @ - over]
                 /\ steps' = [steps EXCEPT ![r] = IF back > 0 THEN @ - 1 ELSE @]
                 /\ backward' = [backward EXCEPT ![r] = @ \/ back > 0]
                 /\ pauses' = [pauses EXCEPT ![r] =
                        Append(@, [asked |-> SleepTicks,
                                   from |-> mono[r],
                                   to |-> mono[r] + SleepTicks + over,
                                   lines |-> Len(out[r]),
                            after |-> i[r]])]
    /\ pc' = [pc EXCEPT ![r] = "loop"]
    /\ UNCHANGED <<iter, i, temp, ts, out, exit, drops, closed, faulty, at, reads,
                   clockErr, writeErr>>

\* thread::sleep(Duration::from_secs(2)): blocks for at least the time asked.
\* Meanwhile the host may set the wall clock back.
Sleep(r) ==
    /\ pc[r] = "sleep"
    /\ \E over \in 0 .. slack[r] :
       \E back \in {0} \cup (IF steps[r] > 0 THEN {BackTicks} ELSE {}) :
          /\ mono' = [mono EXCEPT ![r] = @ + SleepTicks + over]
          /\ wall' = [wall EXCEPT ![r] = @ + SleepTicks + over - back]
          /\ slack' = [slack EXCEPT ![r] = @ - over]
          /\ steps' = [steps EXCEPT ![r] = IF back > 0 THEN @ - 1 ELSE @]
          /\ backward' = [backward EXCEPT ![r] = @ \/ back > 0]
          /\ pauses' = [pauses EXCEPT ![r] =
                 Append(@, [asked |-> SleepTicks,
                            from |-> mono[r],
                            to |-> mono[r] + SleepTicks + over,
                            lines |-> Len(out[r]),
                            after |-> i[r]])]
    /\ pc' = [pc EXCEPT ![r] = "loop"]
    /\ UNCHANGED <<iter, i, temp, ts, out, exit, drops, closed, faulty, at, reads,
                   clockErr, writeErr>>

PrintFooterBlank(r) == Emit(r, "footer", Line(FmtBlank, <<>>), "success")

PrintSuccess(r) == Emit(r, "success", Line(FmtSuccess, <<>>), "footprint")

PrintFootprint(r) == Emit(r, "footprint", Line(FmtFootprint, <<>>), "return")

\* main returns: the process exits with status 0.
Return(r) ==
    /\ pc[r] = "return"
    /\ exit' = [exit EXCEPT ![r] = <<OkStatus>>]
    /\ pc' = [pc EXCEPT ![r] = "exited"]
    /\ UNCHANGED <<iter, i, temp, ts, out, wall, mono, slack, steps,
                   drops, closed, faulty,
                   at, pauses, reads, clockErr, writeErr, backward>>

(* --------------------------- specifications --------------------------- *)

\* The state of the launched processes as main is entered.
Launch(P) ==
    /\ pc = [r \in P |-> "title"]
    /\ iter = [r \in P |-> LoopFirst]
    /\ i = [r \in P |-> 0]
    /\ temp = [r \in P |-> 0]
    /\ ts = [r \in P |-> 0]
    /\ out = [r \in P |-> <<>>]
    /\ exit = [r \in P |-> <<>>]
    /\ mono = [r \in P |-> 0]
    /\ at = [r \in P |-> <<>>]
    /\ pauses = [r \in P |-> <<>>]
    /\ reads = [r \in P |-> <<>>]
    /\ clockErr = [r \in P |-> FALSE]
    /\ writeErr = [r \in P |-> FALSE]
    /\ backward = [r \in P |-> FALSE]
    /\ wall \in [P -> InitWall]

\* The standard outputs a host can give a process: one that takes every
\* line, one that may refuse or hold up any write, one not open for
\* writing.
Stdout(P) ==
    /\ closed \in [P -> BOOLEAN]
    /\ faulty \in {f \in [P -> BOOLEAN] : \A r \in P : closed[r] => ~f[r]}

\* One run, on a host that may oversleep and may set the clock back, with
\* any standard output.  Single writes are passed over on an open standard
\* output only on a host that sleeps punctually, to keep the runs to be
\* explored few.
Init ==
    /\ Launch({1})
    /\ slack \in [{1} -> 0 .. MaxSlack]
    /\ steps \in [{1} -> 0 .. MaxSteps]
    /\ Stdout({1})
    /\ drops \in {f \in [{1} -> 0 .. MaxDrops] :
                   (closed[1] \/ slack[1] > 0) => f[1] = 0}

\* The same, without single writes passed over on an open standard output
\* (which no host does by itself): the runs that a kernel can produce.
InitKernel ==
    /\ Launch({1})
    /\ slack \in [{1} -> 0 .. MaxSlack]
    /\ steps \in [{1} -> 0 .. MaxSteps]
    /\ Stdout({1})
    /\ drops = [r \in {1} |-> 0]

\* The same again, on a host whose clock starts at or after the epoch and
\* is never set back, so that every clock read succeeds.
InitClockOk ==
    /\ Launch({1})
    /\ wall[1] >= 0
    /\ slack \in [{1} -> 0 .. MaxSlack]
    /\ steps = [r \in {1} |-> 0]
    /\ Stdout({1})
    /\ drops = [r \in {1} |-> 0]

\* Two runs side by side, each on its own host, whose clock may start
\* anywhere; the host of the first may set its clock back, the host of the
\* second may oversleep; the standard output of both takes every line.
InitPair ==
    /\ Launch({1, 2})
    /\ slack \in {f \in [{1, 2} -> 0 .. MaxSlack] : f[1] = 0}
    /\ steps \in {f \in [{1, 2} -> 0 .. MaxSteps] : f[2] = 0}
    /\ closed = [r \in {1, 2} |-> FALSE]
    /\ faulty = [r \in {1, 2} |-> FALSE]
    /\ drops = [r \in {1, 2} |-> 0]

Step(r) ==
    \/ PrintTitle(r)
    \/ PrintSeparator(r)
    \/ PrintRuntime(r)
    \/ PrintBuild(r)
    \/ PrintBlank(r)
    \/ LoopHead(r)
    \/ EvalArgs(r)
    \/ PrintReading(r)
    \/ Sleep(r)
    \/ PrintFooterBlank(r)
    \/ PrintSuccess(r)
    \/ PrintFootprint(r)
    \/ Return(r)

Next == \E r \in Procs : Step(r)

Spec == Init /\ [][Next]_vars

SpecKernel == InitKernel /\ [][Next]_vars

SpecClockOk == InitClockOk /\ [][Next]_vars

SpecPair == InitPair /\ [][Next]_vars

(* ------------------------- reading the output ------------------------- *)

IsReading(l) == l.fmt = FmtReading

\* The reading lines process r has written, in order.
Readings(r) == SelectSeq(out[r], IsReading)

\* The format strings of the lines process r has written, in order.
Fmts(r) == [j \in 1 .. Len(out[r]) |-> out[r][j].fmt]

Count(seq, x) == Cardinality({j \in 1 .. Len(seq) : seq[j] = x})

BannerFmts == <<FmtTitle, FmtSeparator, FmtRuntime, FmtBuild, FmtBlank>>

FooterFmts == <<FmtBlank, FmtSuccess, FmtFootprint>>

ReadingFmts == <<FmtReading, FmtReading, FmtReading, FmtReading, FmtReading>>

AllFmts == BannerFmts \o ReadingFmts \o FooterFmts

Exited(r) == exit[r] # <<>>

ExitedOk(r) == exit[r] = <<0>>

\* f can be had from e by leaving elements out: f[a..] from e[b..].
RECURSIVE IsSubseqFrom(_, _, _, _)
IsSubseqFrom(f, e, a, b) ==
    IF a > Len(f) THEN TRUE
    ELSE IF b > Len(e) THEN FALSE
    ELSE IF f[a] = e[b] THEN IsSubseqFrom(f, e, a + 1, b + 1)
    ELSE IsSubseqFrom(f, e, a, b + 1)

IsSubseq(f, e) == IsSubseqFrom(f, e, 1, 1)

\* The positions in out[r] of the reading line with index k (none or one).
ReadingAt(r, k) ==
    {p \in 1 .. Len(out[r]) : IsReading(out[r][p]) /\ out[r][p].args[1] = k}

\* The positions in out[r] of the lines written by the footer's println!s.
FooterAt(r) ==
    {p \in 1 .. Len(out[r]) : at[r][p].stmt \in {"footer", "success", "footprint"}}

(* ------------------------------- claims ------------------------------- *)

\* C1: the indices of the reading lines written so far are exactly 1..k for
\* some k in 0..5, in that order, with no gap and no repeat; a run that
\* ends with every clock read having succeeded has written exactly 5.
C1_FiveWhenClockOk ==
    \A r \in Procs :
        LET rd == Readings(r)
            k == Len(rd)
        IN  /\ k \in 0 .. 5
            /\ \A j \in 1 .. k : rd[j].args[1] = j
            /\ (Exited(r) /\ ~clockErr[r]) => k = 5

\* C2: the temperature on the reading line with index i is 20 + 3*i, that
\* is 23, 26, 29, 32, 35, and computing it does not overflow.
C2_Temperature ==
    \A r \in Procs :
        \A j \in 1 .. Len(Readings(r)) :
            LET l == Readings(r)[j]
            IN  /\ l.args[1] \in 1 .. 5
                /\ l.args[2] = 20 + 3 * l.args[1]
                /\ l.args[2] = <<23, 26, 29, 32, 35>>[l.args[1]]
                /\ ~TempOverflows(l.args[1])

C2_Witness ==
    /\ Len(Readings(1)) = 5
    /\ Readings(1)[1].args[2] = 23
    /\ Readings(1)[5].args[2] = 35

\* C3: the banner block is written once and before any reading line, the
\* footer block once and after all five reading lines; no reading line
\* comes before the banner is complete or after a footer line; a completed
\* run has them all.
C3_BlocksComplete ==
    \A r \in Procs :
        LET f == Fmts(r)
            n == Len(f)
        IN  /\ \A x \in {FmtTitle, FmtSeparator, FmtRuntime, FmtBuild,
                         FmtSuccess, FmtFootprint} : Count(f, x) <= 1
            /\ Count(f, FmtBlank) <= 2
            /\ \A j \in 1 .. n :
                 f[j] = FmtReading =>
                    /\ j > 5
                    /\ SubSeq(f, 1, 5) = BannerFmts
                    /\ \A m \in 6 .. j : f[m] = FmtReading
            /\ \A j \in 1 .. n :
                 (f[j] \in {FmtSuccess, FmtFootprint} \/ (f[j] = FmtBlank /\ j > 5)) =>
                    /\ j > 10
                    /\ SubSeq(f, 6, 10) = ReadingFmts
                    /\ SubSeq(f, 11, j) = SubSeq(FooterFmts, 1, j - 10)
            /\ ExitedOk(r) => f = AllFmts

\* C4: every printed timestamp is the whole number of seconds, not negative,
\* of the wall clock value read for that reading; and while the wall clock
\* has not been set back and every pause has lasted at least 2 seconds,
\* each reading's timestamp is strictly greater than the one before.
C4_Timestamps ==
    \A r \in Procs :
        LET rd == Readings(r)
        IN  /\ \A j \in 1 .. Len(rd) :
                 /\ rd[j].args[3] \in Nat
                 /\ rd[j].args[1] \in 1 .. Len(reads[r])
                 /\ rd[j].args[3] * TicksPerSec <= reads[r][rd[j].args[1]]
                 /\ reads[r][rd[j].args[1]] < (rd[j].args[3] + 1) * TicksPerSec
            /\ ( /\ ~backward[r]
                 /\ \A k \in 1 .. Len(pauses[r]) :
                      pauses[r][k].to - pauses[r][k].from >= 2 * TicksPerSec )
               => \A j \in 1 .. Len(rd) - 1 : rd[j + 1].args[3] > rd[j].args[3]

C4_Witness ==
    /\ ~backward[1]
    /\ Len(Readings(1)) = 5
    /\ reads[1][1] % TicksPerSec # 0
    /\ Readings(1)[5].args[3] > Readings(1)[1].args[3]

\* C5: between reading i and reading i+1 (i in 1..4) there is exactly one
\* pause, asked to last 2 seconds and lasting at least that, during which
\* nothing is written; so the fifth reading line comes at least 8 seconds
\* after the first.
C5_PauseBetweenReadings ==
    \A r \in Procs :
        /\ \A k \in 1 .. 4 : \A a \in ReadingAt(r, k) : \A b \in ReadingAt(r, k + 1) :
             LET ps == {p \in 1 .. Len(pauses[r]) :
                           /\ pauses[r][p].from >= at[r][a].time
                           /\ pauses[r][p].to <= at[r][b].time}
             IN  /\ a < b
                 /\ Cardinality(ps) = 1
                 /\ \A p \in ps :
                      /\ pauses[r][p].asked = 2 * TicksPerSec
                      /\ pauses[r][p].to - pauses[r][p].from >= 2 * TicksPerSec
                      /\ pauses[r][p].lines = a
        /\ \A p \in 1 .. Len(pauses[r]) : \A j \in 1 .. Len(at[r]) :
             ~(pauses[r][p].from < at[r][j].time /\ at[r][j].time < pauses[r][p].to)
        /\ \A a \in ReadingAt(r, 1) : \A b \in ReadingAt(r, 5) :
             at[r][b].time - at[r][a].time >= 8 * TicksPerSec

C5_Witness ==
    /\ ReadingAt(1, 1) = {6}
    /\ ReadingAt(1, 5) = {10}
    /\ at[1][10].time - at[1][6].time > 8 * TicksPerSec

\* The pauses of r performed after the println! of its 5th reading.
TrailingPauses(r) == {p \in 1 .. Len(pauses[r]) : pauses[r][p].after = 5}

\* C6 as stated: a full run performs exactly 4 pauses, none of them between
\* reading 5 and the footer.
C6_NoTrailingPause ==
    \A r \in Procs :
        ExitedOk(r) => (Len(pauses[r]) = 4 /\ TrailingPauses(r) = {})

\* C6 amended: a full run performs exactly 5 pauses of 2 seconds, and
\* exactly one of them lies between reading 5 and the footer.
C6_TrailingPause ==
    \A r \in Procs :
        ExitedOk(r) =>
            /\ Len(pauses[r]) = 5
            /\ \A p \in 1 .. 5 : pauses[r][p].asked = 2 * TicksPerSec
            /\ Cardinality(TrailingPauses(r)) = 1
            /\ \A p \in TrailingPauses(r) :
                 /\ \A a \in ReadingAt(r, 5) : at[r][a].time <= pauses[r][p].from
                 /\ \A b \in FooterAt(r) : pauses[r][p].to <= at[r][b].time

C6_Witness ==
    /\ ExitedOk(1)
    /\ Len(pauses[1]) = 5
    /\ ReadingAt(1, 5) = {10}
    /\ FooterAt(1) = {11, 12, 13}
    /\ pauses[1][5].lines = 10

\* C7: a run that has ended with every clock read having succeeded has
\* written the 13 lines in their order and exited with status 0; and a
\* process that has not ended can always take a step, so that no run stays
\* for ever where it is.
C7_TerminatesOk ==
    \A r \in Procs :
        /\ (Exited(r) /\ ~clockErr[r]) =>
              (exit[r] = <<0>> /\ Len(out[r]) = 13 /\ Fmts(r) = AllFmts)
        /\ ~Exited(r) => ENABLED Step(r)

\* C8: when the clock read for reading i fails the process has exited, at
\* once and with a non-zero status, and what it has written is exactly the
\* banner and the readings 1..i-1: no line for i, no later line, no footer,
\* and no pause after the failed read.
C8_ExactlyBannerAndReadings ==
    \A r \in Procs :
        clockErr[r] =>
            /\ pc[r] = "exited"
            /\ Len(exit[r]) = 1
            /\ exit[r][1] # 0
            /\ ~ENABLED Step(r)
            /\ Len(reads[r]) = i[r]
            /\ reads[r][i[r]] < 0
            /\ Len(out[r]) = 5 + (i[r] - 1)
            /\ Fmts(r) = BannerFmts \o SubSeq(ReadingFmts, 1, i[r] - 1)
            /\ \A j \in 1 .. i[r] - 1 : out[r][5 + j].args[1] = j
            /\ Len(pauses[r]) = i[r] - 1

\* A line with the timestamp field of a reading line removed.
Erase(l) == IF IsReading(l) THEN [l EXCEPT !.args = SubSeq(@, 1, 2)] ELSE l

Erased(r) == [j \in 1 .. Len(out[r]) |-> Erase(out[r][j])]

Min(a, b) == IF a <= b THEN a ELSE b

C10_PauseAfterEveryReading ==
    \A r \in Procs :
        /\ \A k \in 1 .. Len(pauses[r]) :
             /\ k <= 5
             /\ pauses[r][k].after = k
             /\ pauses[r][k].asked = 2 * TicksPerSec
             /\ \A a \in ReadingAt(r, k) :
                  /\ pauses[r][k].lines = a
                  /\ pauses[r][k].from = at[r][a].time
        /\ \A b \in FooterAt(r) :
             /\ Len(pauses[r]) = 5
             /\ pauses[r][5].to <= at[r][b].time
             /\ \A a \in ReadingAt(r, 5) :
                  at[r][b].time - at[r][a].time >= 2 * TicksPerSec
        /\ ExitedOk(r) => Len(pauses[r]) = 5

C10_Witness ==
    /\ ReadingAt(1, 5) = {10}
    /\ 11 \in FooterAt(1)
    /\ Len(pauses[1]) = 5
    /\ at[1][11].time - at[1][10].time >= 2 * TicksPerSec

====
